---- MODULE Spec2Model ----
(***************************************************************************)
(* Model of the configuration resolution engine of properties-manager-js:  *)
(* the ConfigManager singleton (scope resolution, value resolution across  *)
(* process.env and the scoped config files, the per-scope parse cache, the *)
(* typed getters) together with the envParser helpers it calls.            *)
(*                                                                         *)
(* JavaScript values are modelled as follows.                              *)
(*   - a string is a TLA+ string;                                          *)
(*   - "string | undefined" is Undefined (<<>>) or Def(s) (<<s>>);         *)
(*   - any other JS value is a one-field record: [str |-> s], [num |-> n], *)
(*     [bool |-> b], [null |-> TRUE], [undef |-> TRUE], [arr |-> seq],     *)
(*     [obj |-> members];                                                  *)
(*   - a Record<string,string> and process.env are functions whose DOMAIN  *)
(*     is the set of own keys (keys are ordinary configuration names, not  *)
(*     names inherited from Object.prototype).                             *)
(***************************************************************************)
EXTENDS Integers, Sequences, FiniteSets, TLC

(***************************************************************************)
(* Bounds of the model.                                                    *)
(***************************************************************************)
\* the per-epoch count of Source Reader invocations of a scope saturates here
MaxReads == 2

(***************************************************************************)
(* JavaScript string primitives used by the source.                        *)
(***************************************************************************)
Undefined == <<>>
Def(s) == <<s>>
IsDef(o) == o # Undefined
Val(o) == o[1]

\* s[i - 1] of JavaScript, "" outside the string
CharAt(s, i) == IF i \in 1..Len(s) THEN SubSeq(s, i, i) ELSE ""

LowerLetters == "abcdefghijklmnopqrstuvwxyz"
UpperLetters == "ABCDEFGHIJKLMNOPQRSTUVWXYZ"
Digits == "0123456789"
WhiteSpace == {" ", "\t", "\n", "\r", "\f"}

StartsWith(s, p) == Len(s) >= Len(p) /\ SubSeq(s, 1, Len(p)) = p
EndsWith(s, p) == Len(s) >= Len(p) /\ SubSeq(s, Len(s) - Len(p) + 1, Len(s)) = p

RECURSIVE TrimStart(_)
TrimStart(s) ==
  IF s # "" /\ CharAt(s, 1) \in WhiteSpace THEN TrimStart(Tail(s)) ELSE s

RECURSIVE TrimEnd(_)
TrimEnd(s) ==
  IF s # "" /\ CharAt(s, Len(s)) \in WhiteSpace
  THEN TrimEnd(SubSeq(s, 1, Len(s) - 1))
  ELSE s

\* String.prototype.trim
Trim(s) == TrimEnd(TrimStart(s))

\* the least element of a set of positions, 0 for the empty set
FirstOf(hits) == IF hits = {} THEN 0 ELSE CHOOSE i \in hits : \A j \in hits : i <= j

\* String.prototype.indexOf for a one-character needle, 1-based; 0 is JS -1
IndexOf(s, c) == FirstOf({ i \in 1..Len(s) : CharAt(s, i) = c })

LowerAt(i, c) == IF i = 0 THEN c ELSE CharAt(LowerLetters, i)
LowerChar(c) == LowerAt(IndexOf(UpperLetters, c), c)

\* String.prototype.toLowerCase
RECURSIVE ToLowerCase(_)
ToLowerCase(s) ==
  IF s = "" THEN "" ELSE LowerChar(Head(s)) \o ToLowerCase(Tail(s))

\* content.split(/\r?\n/): n is the position of the first "\n" of s, or 0
RECURSIVE SplitAt(_, _)
SplitAt(s, n) ==
  IF n = 0 THEN << s >>
  ELSE << SubSeq(s, 1, IF CharAt(s, n - 1) = "\r" THEN n - 2 ELSE n - 1) >>
       \o SplitAt(SubSeq(s, n + 1, Len(s)), IndexOf(SubSeq(s, n + 1, Len(s)), "\n"))

SplitLines(s) == SplitAt(s, IndexOf(s, "\n"))

(***************************************************************************)
(* envParser.ts                                                            *)
(***************************************************************************)
\* valueRaw without its surrounding quotes
Unquote(valueRaw) ==
  IF (StartsWith(valueRaw, "\"") /\ EndsWith(valueRaw, "\""))
     \/ (StartsWith(valueRaw, "'") /\ EndsWith(valueRaw, "'"))
  THEN SubSeq(valueRaw, 2, Len(valueRaw) - 1)
  ELSE valueRaw

\* "if (!key) continue" and the entry of the line
EntryOf(key, value) == IF key = "" THEN Undefined ELSE Def(<< key, value >>)

\* the trimmed line split at idx, the position of its first "="
EntryAt(line, idx) ==
  IF idx = 0 THEN Undefined
  ELSE EntryOf(Trim(SubSeq(line, 1, idx - 1)),
               Unquote(Trim(SubSeq(line, idx + 1, Len(line)))))

ParseTrimmed(line) ==
  IF line = "" \/ StartsWith(line, "#") THEN Undefined
  ELSE EntryAt(line, IndexOf(line, "="))

\* one iteration of the loop of parseEnvFile: the entry a line contributes
ParseLine(rawLine) == ParseTrimmed(Trim(rawLine))

\* result[key] = value for the entry e of a line, if it has one
Put(result, e) ==
  IF IsDef(e)
  THEN [ k \in DOMAIN result \cup { Val(e)[1] } |->
           IF k = Val(e)[1] THEN Val(e)[2] ELSE result[k] ]
  ELSE result

\* the loop of parseEnvFile over the lines in order
RECURSIVE ParseLines(_, _)
ParseLines(lines, result) ==
  IF lines = << >> THEN result
  ELSE ParseLines(Tail(lines), Put(result, ParseLine(Head(lines))))

EmptyRecord == [ k \in {} |-> "" ]

\* parseEnvFile(filePath) on the file system fs (path -> content)
parseEnvFile(fs, filePath) ==
  IF filePath \notin DOMAIN fs THEN EmptyRecord
  ELSE ParseLines(SplitLines(fs[filePath]), EmptyRecord)

ScopeChars == { CharAt(LowerLetters \o UpperLetters \o Digits \o "._-", i) : i \in 1..65 }

\* /^[a-zA-Z0-9._-]+$/.test(s)
ScopeRegexTest(s) == s # "" /\ \A i \in 1..Len(s) : CharAt(s, i) \in ScopeChars

Returned(v) == [ kind |-> "return", value |-> v ]
Thrown(class, message) == [ kind |-> "throw", class |-> class, message |-> message ]

\* buildEnvFilename without the test of the scope name
FilenameOf_Unchecked(effectiveScope) == Returned("config." \o effectiveScope)

\* the test and the result of buildEnvFilename for scope ?? "dev"
FilenameOf(effectiveScope) ==
  IF ~ScopeRegexTest(effectiveScope)
  THEN Thrown("Error", "Invalid scope name")
  ELSE Returned("config." \o effectiveScope)

\* buildEnvFilename(scope?)
buildEnvFilename(scope) == FilenameOf(IF IsDef(scope) THEN Val(scope) ELSE "dev")

\* path.resolve of an absolute directory and a file name without separators
PathResolve(configDir, filename) ==
  IF filename.kind = "throw" THEN filename
  ELSE Returned(configDir \o "/" \o filename.value)

\* resolveEnvPath(configDir, scope?)
resolveEnvPath(configDir, scope) == PathResolve(configDir, buildEnvFilename(scope))

(***************************************************************************)
(* Type conversions used by the getters.  Number(raw) and JSON.parse(raw)  *)
(* are modelled for the texts the model draws raw values from: decimal     *)
(* integers, Infinity, JSON literals, strings without escapes, arrays and  *)
(* objects.  Fractions, exponents and radix prefixes do not occur.         *)
(***************************************************************************)
DigitValue(c) == IndexOf(Digits, c) - 1
IsDigit(c) == c # "" /\ IndexOf(Digits, c) # 0

RECURSIVE DecimalValue(_)
DecimalValue(s) ==
  IF s = "" THEN 0
  ELSE 10 * DecimalValue(SubSeq(s, 1, Len(s) - 1)) + DigitValue(CharAt(s, Len(s)))

\* the numeric value of an unsigned StrDecimalLiteral with its sign
SignedNumber(sign, body) ==
  IF body = "Infinity" THEN [ inf |-> sign ]
  ELSE IF body # "" /\ \A i \in 1..Len(body) : IsDigit(CharAt(body, i))
       THEN [ num |-> sign * DecimalValue(body) ]
  ELSE [ nan |-> TRUE ]

\* the numeric value of a text without surrounding white space
TrimmedNumber(t) ==
  IF t = "" THEN [ num |-> 0 ]
  ELSE IF StartsWith(t, "-") THEN SignedNumber(-1, Tail(t))
  ELSE IF StartsWith(t, "+") THEN SignedNumber(1, Tail(t))
  ELSE SignedNumber(1, t)

\* Number(raw): StringToNumber of ECMAScript
ToNumber(raw) == TrimmedNumber(Trim(raw))

\* Number.isFinite(n)
IsFinite(n) == "num" \in DOMAIN n

JsonWs == {" ", "\t", "\n", "\r"}

RECURSIVE SkipWs(_, _)
SkipWs(s, i) == IF CharAt(s, i) \in JsonWs THEN SkipWs(s, i + 1) ELSE i

RECURSIVE DigitsEnd(_, _)
DigitsEnd(s, i) == IF IsDigit(CharAt(s, i)) THEN DigitsEnd(s, i + 1) ELSE i

StartsWithAt(s, i, p) == i + Len(p) - 1 <= Len(s) /\ SubSeq(s, i, i + Len(p) - 1) = p

JsonFail == [ ok |-> FALSE ]
JsonOk(pos, val) == [ ok |-> TRUE, pos |-> pos, val |-> val ]

\* the string whose opening quote is at i and whose closing quote is the
\* close-th character of rest, the text after the opening quote
JsonStringBody(i, rest, close) ==
  IF close = 0
     \/ \E n \in 1..(close - 1) : CharAt(rest, n) \in {"\\", "\n", "\r", "\t"}
  THEN JsonFail
  ELSE JsonOk(i + close + 1, [ str |-> SubSeq(rest, 1, close - 1) ])

\* a JSON string without escape sequences, starting at the opening quote
JsonString(s, i) ==
  JsonStringBody(i, SubSeq(s, i + 1, Len(s)), IndexOf(SubSeq(s, i + 1, Len(s)), "\""))

\* the integer with sign sign whose digits are s[b..e-1]
JsonDigits(s, sign, b, e) ==
  IF e = b THEN JsonFail
  ELSE JsonOk(e, [ num |-> sign * DecimalValue(SubSeq(s, b, e - 1)) ])

JsonUnsigned(s, sign, b) ==
  JsonDigits(s, sign, b, IF CharAt(s, b) = "0" THEN b + 1 ELSE DigitsEnd(s, b))

\* a JSON integer: -? ( 0 | [1-9][0-9]* )
JsonNumber(s, i) ==
  IF CharAt(s, i) = "-" THEN JsonUnsigned(s, -1, i + 1) ELSE JsonUnsigned(s, 1, i)

RECURSIVE JsonValueAt(_, _)
RECURSIVE JsonArray(_, _)
RECURSIVE JsonObject(_, _)
RECURSIVE JsonElements(_, _, _)
RECURSIVE JsonElement(_, _, _)
RECURSIVE JsonElementEnd(_, _, _)
RECURSIVE JsonMembers(_, _, _)
RECURSIVE JsonMemberName(_, _, _)
RECURSIVE JsonMemberColon(_, _, _, _)
RECURSIVE JsonMemberValue(_, _, _, _)
RECURSIVE JsonMemberEnd(_, _, _)

\* a JSON value, white space before it skipped
JsonValue(s, i0) == JsonValueAt(s, SkipWs(s, i0))

JsonValueAt(s, i) ==
  IF i > Len(s) THEN JsonFail
  ELSE IF StartsWithAt(s, i, "true") THEN JsonOk(i + 4, [ bool |-> TRUE ])
  ELSE IF StartsWithAt(s, i, "false") THEN JsonOk(i + 5, [ bool |-> FALSE ])
  ELSE IF StartsWithAt(s, i, "null") THEN JsonOk(i + 4, [ null |-> TRUE ])
  ELSE IF CharAt(s, i) = "\"" THEN JsonString(s, i)
  ELSE IF CharAt(s, i) = "-" \/ IsDigit(CharAt(s, i)) THEN JsonNumber(s, i)
  ELSE IF CharAt(s, i) = "[" THEN JsonArray(s, SkipWs(s, i + 1))
  ELSE IF CharAt(s, i) = "{" THEN JsonObject(s, SkipWs(s, i + 1))
  ELSE JsonFail

JsonArray(s, j) ==
  IF CharAt(s, j) = "]" THEN JsonOk(j + 1, [ arr |-> << >> ])
  ELSE JsonElements(s, j, << >>)

JsonObject(s, j) ==
  IF CharAt(s, j) = "}" THEN JsonOk(j + 1, [ obj |-> EmptyRecord ])
  ELSE JsonMembers(s, j, EmptyRecord)

\* the elements of an array from position i on, acc the elements before
JsonElements(s, i, acc) == JsonElement(s, JsonValue(s, i), acc)

JsonElement(s, v, acc) ==
  IF ~v.ok THEN JsonFail
  ELSE JsonElementEnd(s, SkipWs(s, v.pos), Append(acc, v.val))

JsonElementEnd(s, j, acc) ==
  IF CharAt(s, j) = "," THEN JsonElements(s, j + 1, acc)
  ELSE IF CharAt(s, j) = "]" THEN JsonOk(j + 1, [ arr |-> acc ])
  ELSE JsonFail

\* the members of an object from position i on, acc the members before
JsonMembers(s, i, acc) == JsonMemberName(s, SkipWs(s, i), acc)

JsonMemberName(s, k, acc) ==
  IF CharAt(s, k) # "\"" THEN JsonFail
  ELSE JsonMemberColon(s, JsonString(s, k), SkipWs(s, JsonString(s, k).pos), acc)

JsonMemberColon(s, name, c, acc) ==
  IF ~name.ok THEN JsonFail
  ELSE IF CharAt(s, c) # ":" THEN JsonFail
  ELSE JsonMemberValue(s, name.val.str, JsonValue(s, c + 1), acc)

JsonMemberValue(s, name, v, acc) ==
  IF ~v.ok THEN JsonFail
  ELSE JsonMemberEnd(s, SkipWs(s, v.pos),
                     [ m \in DOMAIN acc \cup { name } |->
                         IF m = name THEN v.val ELSE acc[m] ])

JsonMemberEnd(s, j, acc) ==
  IF CharAt(s, j) = "," THEN JsonMembers(s, j + 1, acc)
  ELSE IF CharAt(s, j) = "}" THEN JsonOk(j + 1, [ obj |-> acc ])
  ELSE JsonFail

\* no text but white space after the value
JsonWhole(raw, v) ==
  IF v.ok /\ SkipWs(raw, v.pos) = Len(raw) + 1
  THEN Returned(v.val)
  ELSE Thrown("SyntaxError", "Unexpected token")

\* JSON.parse(raw)
JsonParse(raw) == JsonWhole(raw, JsonValue(raw, 1))

(***************************************************************************)
(* The world of the model: the keys asked for, the texts found in          *)
(* process.env and in the config files, the options of the calls.          *)
(***************************************************************************)
Keys == { "PORT" }

\* process.cwd() and the directory the tests pass as configDir
Cwd == "/app"
ConfigDir == "/app/config"

\* the environment variables the outside world sets, with the texts it uses
EnvValues ==
  [ PM_PORT |-> { "on" }, PORT |-> { "" }, SCOPE |-> { "", "qa" } ]
EnvNames == DOMAIN EnvValues

\* the config files the outside world writes, with the contents it uses
FileContents ==
  [ p \in { "/app/config/config.dev", "/app/config/config.qa" } |->
      IF p = "/app/config/config.dev"
      THEN { "# dev\nPORT=3000\nNAME = 'MyDevApp'\n" }
      ELSE { "PORT=\r\nNO_EQUALS", "NAME=\"qa\"" } ]
FilePaths == DOMAIN FileContents
\* the files the outside world also removes
RemovablePaths == { "/app/config/config.dev" }
\* the files at the start
InitialFiles ==
  [ p \in FilePaths |->
      IF p = "/app/config/config.dev" THEN "# dev\nPORT=3000\nNAME = 'MyDevApp'\n"
      ELSE "NAME=\"qa\"" ]

\* options of ConfigManager.initialize
InitOptions ==
  { [ configDir |-> ConfigDir, defaultScope |-> "dev", envPrefix |-> "PM_",
      scopeEnvVarName |-> "SCOPE", strict |-> TRUE ],
    [ configDir |-> ConfigDir, strict |-> FALSE ] }

\* arguments of load(scope?)
LoadScopes == { Undefined, Def("qa"), Def("") }

\* options.scope of a getter call
CallScopes == { "qa", "a/b" }

\* options.default of a getter call, by the return type of the getter
Defaults(getter) ==
  { [ undef |-> TRUE ] } \cup
  CASE getter = "getString" -> { [ str |-> "fallback" ] }
    [] getter = "getNumber" -> { [ num |-> 42 ] }
    [] getter = "getBoolean" -> { [ bool |-> FALSE ] }
    [] getter = "getJson" -> { [ null |-> TRUE ] }

\* GetOptions<T>: a record whose fields are the own properties of the object
GetOptions(getter) ==
  { EmptyRecord }
  \cup { [ scope |-> sc ] : sc \in CallScopes }
  \cup { [ default |-> d ] : d \in Defaults(getter) }
  \cup { [ scope |-> sc, default |-> d ] : sc \in CallScopes, d \in Defaults(getter) }

\* options.scope (undefined when the property is missing)
OptionsScope(options) ==
  IF "scope" \in DOMAIN options THEN Def(options.scope) ELSE Undefined

(***************************************************************************)
(* State.                                                                  *)
(***************************************************************************)
VARIABLES
  instance,       \* ConfigManager.instance: Null or the readonly fields
  overrideScope,  \* this.overrideScope
  cache,          \* this.cache: scope -> parsed file
  env,            \* process.env
  fs,             \* the files on disk: path -> content
  reads,          \* per scope, the Source Reader invocations of this epoch
  last,           \* the last getter call and its outcome, or NoCall
  op,             \* the last operation: its name, arguments and the state it found
  loaded          \* the argument of the most recent load, Undefined before any

vars == << instance, overrideScope, cache, env, fs, reads, last, op, loaded >>

Null == [ null |-> TRUE ]
NoCall == [ getter |-> "none" ]
NoOp == [ name |-> "none" ]
\* an operation of the outside world
World == [ name |-> "world" ]
EmptyCache == [ sc \in {} |-> EmptyRecord ]
NoReads == [ sc \in {} |-> 0 ]

\* process.env[name]
EnvGet(e, name) == IF name \in DOMAIN e THEN Def(e[name]) ELSE Undefined

\* record[key] of a Record<string,string>
Lookup(record, key) == IF key \in DOMAIN record THEN Def(record[key]) ELSE Undefined

(***************************************************************************)
(* ConfigManager                                                           *)
(***************************************************************************)
\* the constructor: the readonly fields from the options
Constructor(options) ==
  [ configDir |-> IF "configDir" \in DOMAIN options THEN options.configDir
                  ELSE Cwd \o "/" \o "config",
    defaultScope |-> IF "defaultScope" \in DOMAIN options THEN options.defaultScope
                     ELSE "dev",
    envPrefix |-> IF "envPrefix" \in DOMAIN options THEN Def(options.envPrefix)
                  ELSE Undefined,
    strict |-> IF "strict" \in DOMAIN options THEN options.strict ELSE TRUE,
    scopeEnvVarName |-> IF "scopeEnvVarName" \in DOMAIN options
                        THEN options.scopeEnvVarName ELSE "SCOPE" ]

\* a result out together with the memory (cache, reads) of m
Memory(out, m) == [ out |-> out, cache |-> m.cache, reads |-> m.reads ]

\* the count of Source Reader invocations after one more
Bump(count) == IF count < MaxReads THEN count + 1 ELSE count

\* this.cache.set(scope, parsed); return parsed: the memory with the parsed
\* file stored and one more Source Reader invocation counted for the scope
Stored(m, scope, parsed) ==
  [ out |-> Returned(parsed),
    cache |-> [ sc \in DOMAIN m.cache \cup { scope } |->
                  IF sc = scope THEN parsed ELSE m.cache[sc] ],
    reads |-> [ sc \in DOMAIN m.reads \cup { scope } |->
                  IF sc # scope THEN m.reads[sc]
                  ELSE Bump(IF scope \in DOMAIN m.reads THEN m.reads[scope] ELSE 0) ] ]

\* the cache miss of ensureScopeLoaded: the file at envPath is parsed and
\* stored, unless the path builder threw
ReadScope(files, m, scope, envPath) ==
  IF envPath.kind = "throw" THEN Memory(envPath, m)
  ELSE Stored(m, scope, parseEnvFile(files, envPath.value))

\* ensureScopeLoaded without the cache.has test: every access reads the file
ensureScopeLoaded_NoCacheCheck(self, files, m, scope) ==
  ReadScope(files, m, scope, resolveEnvPath(self.configDir, scope))

\* ensureScopeLoaded without the cache.set: the parsed file is not kept
ensureScopeLoaded_NoStore(self, files, m, scope) ==
  LET Unstored(envPath) ==
        IF envPath.kind = "throw" THEN Memory(envPath, m)
        ELSE Memory(Returned(parseEnvFile(files, envPath.value)), m)
  IN IF scope \in DOMAIN m.cache THEN Memory(Returned(m.cache[scope]), m)
     ELSE Unstored(resolveEnvPath(self.configDir, scope))

\* ensureScopeLoaded(scope) on the memory m = [cache, reads]: the parsed file
\* (or the error of the path builder) and the memory after the call
ensureScopeLoaded(self, files, m, scope) ==
  IF scope \in DOMAIN m.cache THEN Memory(Returned(m.cache[scope]), m)
  ELSE ReadScope(files, m, scope, resolveEnvPath(self.configDir, scope))

\* this.scopeEnvVarName ? process.env[this.scopeEnvVarName] : undefined
AmbientScope(self, e) ==
  IF self.scopeEnvVarName # "" THEN EnvGet(e, self.scopeEnvVarName) ELSE Undefined

\* resolveScope with "envScope !== undefined" for the ambient variable
resolveScope_EmptyAmbient(self, override, e, explicitScope) ==
  IF IsDef(explicitScope) THEN Val(explicitScope)
  ELSE IF IsDef(override) THEN Val(override)
  ELSE IF IsDef(AmbientScope(self, e)) THEN Val(AmbientScope(self, e))
  ELSE self.defaultScope

\* resolveScope with "if (this.overrideScope)" for the override
resolveScope_TruthyOverride(self, override, e, explicitScope) ==
  IF IsDef(explicitScope) THEN Val(explicitScope)
  ELSE IF IsDef(override) /\ Val(override) # "" THEN Val(override)
  ELSE IF IsDef(AmbientScope(self, e)) /\ Val(AmbientScope(self, e)) # ""
          /\ Len(Val(AmbientScope(self, e))) > 0
       THEN Val(AmbientScope(self, e))
  ELSE self.defaultScope

\* resolveScope(explicitScope?)
resolveScope(self, override, e, explicitScope) ==
  IF IsDef(explicitScope) THEN Val(explicitScope)
  ELSE IF IsDef(override) THEN Val(override)
  ELSE IF IsDef(AmbientScope(self, e)) /\ Val(AmbientScope(self, e)) # ""
          /\ Len(Val(AmbientScope(self, e))) > 0
       THEN Val(AmbientScope(self, e))
  ELSE self.defaultScope

\* process.env[`${this.envPrefix}${key}`] inside "if (this.envPrefix)"
Prefixed(self, e, key) ==
  IF IsDef(self.envPrefix) /\ Val(self.envPrefix) # ""
  THEN EnvGet(e, Val(self.envPrefix) \o key)
  ELSE Undefined

\* "if (def[key] !== undefined) return def[key]; return undefined" on the
\* loaded file of the default scope
EntryIn(key, def) ==
  IF def.out.kind = "throw" THEN def
  ELSE Memory(Returned(Lookup(def.out.value, key)), def)

\* tier 4 of resolveRawValue: the file of the default scope, if it is
\* another scope than the effective one
FromDefault(self, files, m, key, scope) ==
  IF self.defaultScope # "" /\ Def(self.defaultScope) # scope
  THEN EntryIn(key, ensureScopeLoaded(self, files, m, Def(self.defaultScope)))
  ELSE Memory(Returned(Undefined), m)

\* tier 3 of resolveRawValue on the loaded file of the effective scope
FromScope(self, files, key, scope, scoped) ==
  IF scoped.out.kind = "throw" THEN scoped
  ELSE IF IsDef(Lookup(scoped.out.value, key))
       THEN Memory(Returned(Lookup(scoped.out.value, key)), scoped)
  ELSE FromDefault(self, files, scoped, key, scope)

\* the file tiers with the default scope's file loaded up front
FromFiles_Eager(self, files, m, key, scope) ==
  IF IsDef(scope)
  THEN FromScope(self, files, key, scope,
                 ensureScopeLoaded(self, files,
                   ensureScopeLoaded(self, files, m, Def(self.defaultScope)), scope))
  ELSE FromDefault(self, files, m, key, scope)

\* tiers 3 and 4 of resolveRawValue
FromFiles(self, files, m, key, scope) ==
  IF IsDef(scope)
  THEN FromScope(self, files, key, scope, ensureScopeLoaded(self, files, m, scope))
  ELSE FromDefault(self, files, m, key, scope)

\* resolveRawValue that answers from the cached file of the scope when it
\* has the key, before it looks at process.env
resolveRawValue_CachedFirst(self, e, files, m, key, scope) ==
  IF IsDef(scope) /\ scope \in DOMAIN m.cache /\ key \in DOMAIN m.cache[scope]
  THEN Memory(Returned(Def(m.cache[scope][key])), m)
  ELSE IF IsDef(Prefixed(self, e, key)) THEN Memory(Returned(Prefixed(self, e, key)), m)
  ELSE IF IsDef(EnvGet(e, key)) THEN Memory(Returned(EnvGet(e, key)), m)
  ELSE FromFiles(self, files, m, key, scope)

\* resolveRawValue with the unprefixed variable tested before the prefixed
resolveRawValue_PlainFirst(self, e, files, m, key, scope) ==
  IF IsDef(EnvGet(e, key)) THEN Memory(Returned(EnvGet(e, key)), m)
  ELSE IF IsDef(Prefixed(self, e, key)) THEN Memory(Returned(Prefixed(self, e, key)), m)
  ELSE FromFiles(self, files, m, key, scope)

\* resolveRawValue with the default scope's file consulted before the file
\* of the effective scope
resolveRawValue_DefaultFirst(self, e, files, m, key, scope) ==
  LET DefaultThenScope(def) ==
        IF def.out.kind = "throw" THEN def
        ELSE IF IsDef(Lookup(def.out.value, key))
             THEN Memory(Returned(Lookup(def.out.value, key)), def)
        ELSE EntryIn(key, ensureScopeLoaded(self, files, def, scope))
  IN IF IsDef(Prefixed(self, e, key)) THEN Memory(Returned(Prefixed(self, e, key)), m)
     ELSE IF IsDef(EnvGet(e, key)) THEN Memory(Returned(EnvGet(e, key)), m)
     ELSE DefaultThenScope(ensureScopeLoaded(self, files, m, Def(self.defaultScope)))

\* resolveRawValue that stops after the file of the effective scope
resolveRawValue_NoFallback(self, e, files, m, key, scope) ==
  IF IsDef(Prefixed(self, e, key)) THEN Memory(Returned(Prefixed(self, e, key)), m)
  ELSE IF IsDef(EnvGet(e, key)) THEN Memory(Returned(EnvGet(e, key)), m)
  ELSE IF IsDef(scope) THEN EntryIn(key, ensureScopeLoaded(self, files, m, scope))
  ELSE Memory(Returned(Undefined), m)

\* resolveRawValue(key, scope): out is Returned(string | undefined) or the
\* error thrown on the way; cache and reads are the memory after the call
resolveRawValue(self, e, files, m, key, scope) ==
  IF IsDef(Prefixed(self, e, key)) THEN Memory(Returned(Prefixed(self, e, key)), m)
  ELSE IF IsDef(EnvGet(e, key)) THEN Memory(Returned(EnvGet(e, key)), m)
  ELSE FromFiles(self, files, m, key, scope)

\* handleMissing with the strict test before the default test
handleMissing_StrictFirst(self, options) ==
  IF self.strict THEN Thrown("Error", "Config key not found")
  ELSE IF "default" \in DOMAIN options THEN Returned(options.default)
  ELSE Returned([ undef |-> TRUE ])

\* handleMissing that throws whatever the strict flag
handleMissing_AlwaysThrows(self, options) ==
  IF "default" \in DOMAIN options THEN Returned(options.default)
  ELSE Thrown("Error", "Config key not found")

\* handleMissing with "options.default != null" for the presence of a default
handleMissing_DefinedDefault(self, options) ==
  IF "default" \in DOMAIN options
     /\ options.default \notin { [ undef |-> TRUE ], [ null |-> TRUE ] }
  THEN Returned(options.default)
  ELSE IF self.strict THEN Thrown("Error", "Config key not found")
  ELSE Returned([ undef |-> TRUE ])

\* handleMissing(key, scope, options)
handleMissing(self, options) ==
  IF "default" \in DOMAIN options THEN Returned(options.default)
  ELSE IF self.strict THEN Thrown("Error", "Config key not found")
  ELSE Returned([ undef |-> TRUE ])

\* "if ('default' in options) return options.default" before the failure
\* of a conversion
Failed(options, failure) ==
  IF "default" \in DOMAIN options THEN Returned(options.default) ELSE failure

\* getNumber on n = Number(raw)
NumberOf(n, options, failure) ==
  IF ~IsFinite(n) THEN Failed(options, failure) ELSE Returned(n)

\* getBoolean that takes the empty text for false
BooleanOf_EmptyIsFalse(lc, options, failure) ==
  IF lc \in { "true", "1", "yes", "on" } THEN Returned([ bool |-> TRUE ])
  ELSE IF lc \in { "", "false", "0", "no", "off" } THEN Returned([ bool |-> FALSE ])
  ELSE Failed(options, failure)

\* getBoolean on lc = raw.toLowerCase()
BooleanOf(lc, options, failure) ==
  IF lc \in { "true", "1", "yes", "on" } THEN Returned([ bool |-> TRUE ])
  ELSE IF lc \in { "false", "0", "no", "off" } THEN Returned([ bool |-> FALSE ])
  ELSE Failed(options, failure)

\* getJson on the outcome of JSON.parse(raw)
JsonOf(parsed, options, failure) ==
  IF parsed.kind = "return" THEN parsed ELSE Failed(options, failure)

\* the conversions with a failure that returns undefined instead of throwing
Convert_Swallows(getter, raw, options) ==
  CASE getter = "getString" -> Returned([ str |-> raw ])
    [] getter = "getNumber" ->
         NumberOf(ToNumber(raw), options, Returned([ undef |-> TRUE ]))
    [] getter = "getBoolean" ->
         BooleanOf(ToLowerCase(raw), options, Returned([ undef |-> TRUE ]))
    [] getter = "getJson" ->
         JsonOf(JsonParse(raw), options, Returned([ undef |-> TRUE ]))

\* what a getter does with a present raw value: the conversion of its type,
\* the default or the TypeError when it fails
Convert(getter, raw, options) ==
  CASE getter = "getString" -> Returned([ str |-> raw ])
    [] getter = "getNumber" ->
         NumberOf(ToNumber(raw), options, Thrown("TypeError", "expected a finite number"))
    [] getter = "getBoolean" ->
         BooleanOf(ToLowerCase(raw), options, Thrown("TypeError", "expected a boolean"))
    [] getter = "getJson" ->
         JsonOf(JsonParse(raw), options, Thrown("TypeError", "expected valid JSON"))

\* the end of a getter with "if (!raw)" for the missing value
Outcome_EmptyIsMissing(getter, self, options, scope, r) ==
  [ scope |-> scope,
    raw |-> r.out,
    outcome |-> IF r.out.kind = "throw" THEN r.out
                ELSE IF r.out.value \in { Undefined, Def("") }
                     THEN handleMissing(self, options)
                ELSE Convert(getter, Val(r.out.value), options),
    cache |-> r.cache,
    reads |-> r.reads ]

\* the end of a getter on r, the result of resolveRawValue for the scope
Outcome(getter, self, options, scope, r) ==
  [ scope |-> scope,
    raw |-> r.out,
    outcome |-> IF r.out.kind = "throw" THEN r.out
                ELSE IF r.out.value = Undefined THEN handleMissing(self, options)
                ELSE Convert(getter, Val(r.out.value), options),
    cache |-> r.cache,
    reads |-> r.reads ]

\* a getter once the effective scope is resolved
GetIn(getter, self, e, files, m, key, options, scope) ==
  Outcome(getter, self, options, scope,
          resolveRawValue(self, e, files, m, key, Def(scope)))

\* the common body of getString, getNumber, getBoolean and getJson
Get(getter, self, override, e, files, m, key, options) ==
  GetIn(getter, self, e, files, m, key, options,
        resolveScope(self, override, e, OptionsScope(options)))

(***************************************************************************)
(* Actions                                                                 *)
(***************************************************************************)
Init ==
  /\ instance = Null
  /\ overrideScope = Undefined
  /\ cache = EmptyCache
  /\ env = [ n \in {} |-> "" ]
  /\ fs = InitialFiles
  /\ reads = NoReads
  /\ last = NoCall
  /\ op = NoOp
  /\ loaded = Undefined

\* initialize that constructs a new instance from the options of every call
initialize_Reconstructs(options) ==
  /\ instance' = Constructor(options)
  /\ last' = NoCall
  /\ op' = [ name |-> "initialize", options |-> options, existing |-> instance ]
  /\ UNCHANGED << overrideScope, cache, env, fs, reads, loaded >>

\* ConfigManager.initialize(options)
initialize(options) ==
  /\ instance' = IF instance = Null THEN Constructor(options) ELSE instance
  /\ last' = NoCall
  /\ op' = [ name |-> "initialize", options |-> options, existing |-> instance ]
  /\ UNCHANGED << overrideScope, cache, env, fs, reads, loaded >>

\* ConfigManager.getInstance()
getInstance ==
  /\ instance' = IF instance = Null THEN Constructor(EmptyRecord) ELSE instance
  /\ last' = NoCall
  /\ op' = [ name |-> "getInstance", existing |-> instance ]
  /\ UNCHANGED << overrideScope, cache, env, fs, reads, loaded >>

\* clearCache that drops only the entry of the scope in force
clearCache_OnlyCurrent ==
  /\ instance # Null
  /\ cache' = [ sc \in DOMAIN cache \ { overrideScope } |-> cache[sc] ]
  /\ reads' = [ sc \in DOMAIN reads \ { overrideScope } |-> reads[sc] ]
  /\ last' = NoCall
  /\ op' = [ name |-> "clearCache", cacheBefore |-> cache ]
  /\ UNCHANGED << instance, overrideScope, env, fs, loaded >>

\* clearCache()
clearCache ==
  /\ instance # Null
  /\ cache' = EmptyCache
  /\ reads' = NoReads
  /\ last' = NoCall
  /\ op' = [ name |-> "clearCache", cacheBefore |-> cache ]
  /\ UNCHANGED << instance, overrideScope, env, fs, loaded >>

\* load that keeps the cache when the override does not change
load_SkipsSameScope(scope) ==
  /\ instance # Null
  /\ overrideScope' = scope
  /\ cache' = IF scope = overrideScope THEN cache ELSE EmptyCache
  /\ reads' = IF scope = overrideScope THEN reads ELSE NoReads
  /\ last' = NoCall
  /\ op' = [ name |-> "load", scope |-> scope,
             overrideBefore |-> overrideScope, cacheBefore |-> cache ]
  /\ loaded' = scope
  /\ UNCHANGED << instance, env, fs >>

\* load with "if (scope !== undefined) this.overrideScope = scope"
load_KeepsOnClear(scope) ==
  /\ instance # Null
  /\ overrideScope' = IF scope = Undefined THEN overrideScope ELSE scope
  /\ cache' = EmptyCache
  /\ reads' = NoReads
  /\ last' = NoCall
  /\ op' = [ name |-> "load", scope |-> scope,
             overrideBefore |-> overrideScope, cacheBefore |-> cache ]
  /\ loaded' = scope
  /\ UNCHANGED << instance, env, fs >>

\* load(scope?)
load(scope) ==
  /\ instance # Null
  /\ overrideScope' = scope
  /\ cache' = EmptyCache
  /\ reads' = NoReads
  /\ last' = NoCall
  /\ op' = [ name |-> "load", scope |-> scope,
             overrideBefore |-> overrideScope, cacheBefore |-> cache ]
  /\ loaded' = scope
  /\ UNCHANGED << instance, env, fs >>

\* the operation a getter call follows, remembered when it is a clearCache
\* (with the cache it emptied) or a load (with its argument and the
\* override it replaced)
Following(o) ==
  IF o.name = "clearCache" THEN o
  ELSE IF o.name = "load"
       THEN [ name |-> "load", scope |-> o.scope, overrideBefore |-> o.overrideBefore ]
  ELSE [ name |-> "other" ]

\* the effects of a getter call whose result is g
Answer(getter, key, options, g) ==
  /\ cache' = g.cache
  /\ reads' = g.reads
  /\ last' = [ getter |-> getter, key |-> key, options |-> options,
               scope |-> g.scope, raw |-> g.raw, outcome |-> g.outcome,
               cacheBefore |-> cache ]

\* a getter that keeps the scope of the call as the override
Getter_StickyScope(getter, key, options) ==
  /\ instance # Null
  /\ last = NoCall
  /\ Answer(getter, key, options,
            Get(getter, instance, overrideScope, env, fs,
                [ cache |-> cache, reads |-> reads ], key, options))
  /\ op' = [ name |-> "get", after |-> Following(op) ]
  /\ overrideScope' = IF "scope" \in DOMAIN options THEN Def(options.scope)
                      ELSE overrideScope
  /\ UNCHANGED << instance, env, fs, loaded >>

\* a call of the getter named getter
Getter(getter, key, options) ==
  /\ instance # Null
  /\ last = NoCall
  /\ Answer(getter, key, options,
            Get(getter, instance, overrideScope, env, fs,
                [ cache |-> cache, reads |-> reads ], key, options))
  /\ op' = [ name |-> "get", after |-> Following(op) ]
  /\ UNCHANGED << instance, overrideScope, env, fs, loaded >>

getString(key, options) == Getter("getString", key, options)
getNumber(key, options) == Getter("getNumber", key, options)
getBoolean(key, options) == Getter("getBoolean", key, options)
getJson(key, options) == Getter("getJson", key, options)

\* the outside world: process.env[name] = value
SetEnv(name, value) ==
  /\ env' = [ n \in DOMAIN env \cup { name } |-> IF n = name THEN value ELSE env[n] ]
  /\ last' = NoCall
  /\ op' = World
  /\ UNCHANGED << instance, overrideScope, cache, fs, reads, loaded >>

\* the outside world: delete process.env[name]
DeleteEnv(name) ==
  /\ name \in DOMAIN env
  /\ env' = [ n \in DOMAIN env \ { name } |-> env[n] ]
  /\ last' = NoCall
  /\ op' = World
  /\ UNCHANGED << instance, overrideScope, cache, fs, reads, loaded >>

\* the outside world: fs.writeFileSync(path, content)
WriteFile(path, content) ==
  /\ fs' = [ p \in DOMAIN fs \cup { path } |-> IF p = path THEN content ELSE fs[p] ]
  /\ last' = NoCall
  /\ op' = World
  /\ UNCHANGED << instance, overrideScope, cache, env, reads, loaded >>

\* the outside world: fs.unlinkSync(path)
DeleteFile(path) ==
  /\ path \in DOMAIN fs
  /\ fs' = [ p \in DOMAIN fs \ { path } |-> fs[p] ]
  /\ last' = NoCall
  /\ op' = World
  /\ UNCHANGED << instance, overrideScope, cache, env, reads, loaded >>

Next ==
  \/ \E options \in InitOptions : initialize(options)
  \/ getInstance
  \/ clearCache
  \/ \E scope \in LoadScopes : load(scope)
  \/ \E key \in Keys : \E options \in GetOptions("getString") : getString(key, options)
  \/ \E key \in Keys : \E options \in GetOptions("getNumber") : getNumber(key, options)
  \/ \E key \in Keys : \E options \in GetOptions("getBoolean") : getBoolean(key, options)
  \/ \E key \in Keys : \E options \in GetOptions("getJson") : getJson(key, options)
  \/ \E name \in EnvNames : \E value \in EnvValues[name] : SetEnv(name, value)
  \/ \E name \in EnvNames : DeleteEnv(name)
  \/ \E path \in FilePaths : \E content \in FileContents[path] : WriteFile(path, content)
  \/ \E path \in RemovablePaths : DeleteFile(path)

Spec == Init /\ [][Next]_vars

(***************************************************************************)
(* The conversions on their own: the engine is constructed, the variable    *)
(* PORT holds one of the texts below, and the getters are called on it.     *)
(***************************************************************************)
\* texts for the boolean conversion: the accepted words in several
\* spellings, the empty text, padded and near-miss texts
BooleanTexts ==
  { "true", "TRUE", "True", "tRuE", "1", "yes", "YES", "Yes", "on", "ON", "oN",
    "false", "FALSE", "False", "0", "no", "No", "off", "OFF", "Off",
    "", " ", " true", "true ", "truee", "t", "y", "n", "2", "01", "null",
    "enabled", "o", "of", "onn", "yes!", "TRUE\n" }

TextInit ==
  /\ instance \in { Constructor(options) : options \in InitOptions }
  /\ overrideScope = Undefined
  /\ cache = EmptyCache
  /\ env \in { [ n \in { "PORT" } |-> t ] : t \in BooleanTexts }
  /\ fs = InitialFiles
  /\ reads = NoReads
  /\ last = NoCall
  /\ op = World
  /\ loaded = Undefined

TextNext ==
  \/ getInstance
  \/ \E key \in Keys : \E options \in GetOptions("getString") : getString(key, options)
  \/ \E key \in Keys : \E options \in GetOptions("getBoolean") : getBoolean(key, options)

TextSpec == TextInit /\ [][TextNext]_vars

(***************************************************************************)
(* The override on its own: load is called with any string, legal as a      *)
(* scope name or not, and the getters are called under it.                  *)
(***************************************************************************)
\* arguments of load(scope?): none, legal names, the empty name, names with
\* characters the path builder rejects
LoadArguments ==
  LoadScopes \cup { Def("prod"), Def("a/b"), Def("../qa"), Def("q a") }

LoadNext ==
  \/ \E options \in InitOptions : initialize(options)
  \/ \E scope \in LoadArguments : load(scope)
  \/ \E key \in Keys : \E options \in GetOptions("getString") : getString(key, options)
  \/ \E name \in EnvNames : \E value \in EnvValues[name] : SetEnv(name, value)
  \/ \E name \in EnvNames : DeleteEnv(name)

LoadSpec == Init /\ [][LoadNext]_vars

(***************************************************************************)
(* Vocabulary of the properties.                                           *)
(***************************************************************************)
Called == last # NoCall
HasDefault == "default" \in DOMAIN last.options
HasScope == "scope" \in DOMAIN last.options

\* the environment variable <prefix><key>, when a prefix is configured
PrefixedName == Val(instance.envPrefix) \o last.key
PrefixedDefined == IsDef(instance.envPrefix) /\ PrefixedName \in DOMAIN env
PlainDefined == last.key \in DOMAIN env
NoEnvDefines == ~PrefixedDefined /\ ~PlainDefined

\* the scope names the path builder accepts
NameChars ==
  { "a", "b", "c", "d", "e", "f", "g", "h", "i", "j", "k", "l", "m",
    "n", "o", "p", "q", "r", "s", "t", "u", "v", "w", "x", "y", "z",
    "A", "B", "C", "D", "E", "F", "G", "H", "I", "J", "K", "L", "M",
    "N", "O", "P", "Q", "R", "S", "T", "U", "V", "W", "X", "Y", "Z",
    "0", "1", "2", "3", "4", "5", "6", "7", "8", "9", ".", "_", "-" }
ValidName(sc) == sc # "" /\ \A i \in 1..Len(sc) : CharAt(sc, i) \in NameChars

\* the parsed file of a scope as the call found it: the cache entry of the
\* epoch if there was one, the content of <configDir>/config.<scope> if not
FileOf(sc) ==
  IF Def(sc) \in DOMAIN last.cacheBefore THEN last.cacheBefore[Def(sc)]
  ELSE parseEnvFile(fs, instance.configDir \o "/config." \o sc)
Defines(sc) == last.key \in DOMAIN FileOf(sc)

\* C1: the effective scope of a getter call is the scope of the call if one
\* is supplied, else the Scope Override if set, else the non-empty value of
\* the ambient-scope variable, else the default scope
C1_EffectiveScope ==
  Called =>
    last.scope =
      IF HasScope THEN last.options.scope
      ELSE IF overrideScope # Undefined THEN Val(overrideScope)
      ELSE IF EnvGet(env, instance.scopeEnvVarName) \notin { Undefined, Def("") }
           THEN Val(EnvGet(env, instance.scopeEnvVarName))
      ELSE instance.defaultScope

\* an empty ambient variable counts as absent: the default scope decides
C1_Witness ==
  /\ Called /\ ~HasScope /\ overrideScope = Undefined
  /\ EnvGet(env, instance.scopeEnvVarName) = Def("")
  /\ last.scope = instance.defaultScope

\* C2: the raw value is the prefixed environment variable if a prefix is
\* configured and the variable is defined, else the unprefixed variable if
\* defined; the files are not touched in either case
C2_EnvBeforeFiles ==
  Called =>
    /\ PrefixedDefined =>
          last.raw = Returned(Def(env[PrefixedName])) /\ cache = last.cacheBefore
    /\ ~PrefixedDefined /\ PlainDefined =>
          last.raw = Returned(Def(env[last.key])) /\ cache = last.cacheBefore

\* PM_PORT, PORT and the scope file all define the key: PM_PORT wins
C2_Witness ==
  /\ Called /\ PrefixedDefined /\ PlainDefined
  /\ ValidName(last.scope) /\ Defines(last.scope)
  /\ env[PrefixedName] # env[last.key]
  /\ last.raw = Returned(Def(env[PrefixedName]))

\* C3: without an environment variable for the key, the raw value is the
\* entry of the effective scope's file, else the entry of the default
\* scope's file when the default scope is another scope, else "not found";
\* a missing file or a missing entry is never an error (scope names valid)
C3_FileTiers ==
  Called /\ NoEnvDefines /\ ValidName(last.scope) /\ ValidName(instance.defaultScope) =>
    last.raw =
      IF Defines(last.scope)
      THEN Returned(Def(FileOf(last.scope)[last.key]))
      ELSE IF instance.defaultScope # last.scope /\ Defines(instance.defaultScope)
      THEN Returned(Def(FileOf(instance.defaultScope)[last.key]))
      ELSE Returned(Undefined)

\* the file of the effective scope lacks the key and the default scope's
\* file is missing: the call falls through both tiers to "not found"
C3_Witness ==
  /\ Called /\ NoEnvDefines /\ last.scope = "qa" /\ instance.defaultScope = "dev"
  /\ "/app/config/config.dev" \notin DOMAIN fs /\ last.cacheBefore = EmptyCache
  /\ ~Defines("qa")
  /\ last.raw = Returned(Undefined)

\* the case of C4: a key only the default scope's file defines, asked for
\* with an explicit scope other than the default whose file lacks the key
C4_Case ==
  /\ Called /\ NoEnvDefines /\ HasScope
  /\ last.scope # instance.defaultScope
  /\ ValidName(last.scope) /\ ~Defines(last.scope)
  /\ ValidName(instance.defaultScope) /\ Defines(instance.defaultScope)

\* C4 as claimed: in that case the raw value is "not found"
C4_Original == C4_Case => last.raw = Returned(Undefined)

\* C4 as amended: in that case the raw value is the entry of the default
\* scope's file (tier 4); the explicit scope does not cut the fallback off
C4_FallsBackToDefault ==
  C4_Case => last.raw = Returned(Def(FileOf(instance.defaultScope)[last.key]))

\* the explicit scope's file exists and lacks the key
C4_Witness ==
  /\ C4_Case
  /\ instance.configDir \o "/config." \o last.scope \in DOMAIN fs
  /\ last.raw = Returned(Def("3000"))

\* the conversion of the getter rejects the raw text
ConversionFails(getter, text) ==
  CASE getter = "getString" -> FALSE
    [] getter = "getNumber" -> "num" \notin DOMAIN ToNumber(text)
    [] getter = "getBoolean" ->
         ToLowerCase(text) \notin { "true", "1", "yes", "on", "false", "0", "no", "off" }
    [] getter = "getJson" -> JsonParse(text).kind = "throw"

RawMissing == last.raw = Returned(Undefined)
RawPresent == last.raw.kind = "return" /\ last.raw.value # Undefined
RawFails == RawPresent /\ ConversionFails(last.getter, Val(last.raw.value))

\* C5: a call that supplies a default returns it, and raises nothing, when no
\* tier defines the key and when the raw value fails the conversion, in
\* strict and in non-strict mode
C5_DefaultWins ==
  Called /\ HasDefault /\ (RawMissing \/ RawFails) =>
    last.outcome = Returned(last.options.default)

\* strict mode, a raw value that is not a number, a default of 42
C5_Witness ==
  /\ Called /\ instance.strict /\ last.getter = "getNumber" /\ RawFails
  /\ HasDefault /\ last.options.default = [ num |-> 42 ]
  /\ last.outcome = Returned([ num |-> 42 ])

\* C6: a missing key without a default fails with "not found" in strict
\* mode and returns undefined in non-strict mode
C6_MissingKey ==
  Called /\ RawMissing /\ ~HasDefault =>
    last.outcome = IF instance.strict
                   THEN Thrown("Error", "Config key not found")
                   ELSE Returned([ undef |-> TRUE ])

\* the non-strict engine returns undefined
C6_Witness ==
  /\ Called /\ RawMissing /\ ~HasDefault /\ ~instance.strict
  /\ last.outcome = Returned([ undef |-> TRUE ])

\* C7: a present raw value that fails the conversion, without a default,
\* fails with the conversion error whatever the strict flag
C7_InvalidValue ==
  Called /\ RawFails /\ ~HasDefault =>
    last.outcome.kind = "throw" /\ last.outcome.class = "TypeError"

\* the non-strict engine raises the conversion error
C7_Witness ==
  /\ Called /\ RawFails /\ ~HasDefault /\ ~instance.strict
  /\ last.outcome.kind = "throw" /\ last.outcome.class = "TypeError"

\* C8: a default whose value is undefined or null is a default: on a missing
\* key in strict mode the call returns it, and only the call without the
\* default property raises "not found"
C8_DefaultPresence ==
  Called /\ RawMissing /\ instance.strict =>
    /\ HasDefault => last.outcome = Returned(last.options.default)
    /\ ~HasDefault => last.outcome = Thrown("Error", "Config key not found")

\* strict mode, missing key, { default: undefined }
C8_Witness ==
  /\ Called /\ RawMissing /\ instance.strict
  /\ HasDefault /\ last.options.default = [ undef |-> TRUE ]
  /\ last.outcome = Returned([ undef |-> TRUE ])

\* C9: in an epoch the Source Reader runs at most once per scope, every
\* read inserts the entry of its scope, and a getter call leaves the entries
\* it finds as they are
C9_OneReadPerEpoch ==
  /\ DOMAIN reads = DOMAIN cache
  /\ \A sc \in DOMAIN reads : reads[sc] <= 1
  /\ Called => \A sc \in DOMAIN last.cacheBefore :
       sc \in DOMAIN cache /\ cache[sc] = last.cacheBefore[sc]

\* a call answered from an entry cached earlier in the epoch, although the
\* file on disk has changed since
C9_Witness ==
  /\ Called /\ NoEnvDefines /\ Def(last.scope) \in DOMAIN last.cacheBefore
  /\ parseEnvFile(fs, instance.configDir \o "/config." \o last.scope)
       # last.cacheBefore[Def(last.scope)]
  /\ last.raw = Returned(Lookup(last.cacheBefore[Def(last.scope)], last.key))
  /\ reads[Def(last.scope)] = 1

\* every content the disk can have
Disks ==
  { d \in UNION { [ D -> UNION { FileContents[p] : p \in FilePaths } ] :
                    D \in SUBSET FilePaths } :
      \A p \in DOMAIN d : d[p] \in FileContents[p] }

\* C10: after a getter call, the same call made again in the same epoch and
\* environment has the same result whatever the disk holds by then: files
\* modified, created or deleted since the first call do not show
C10_RepeatedRead ==
  Called =>
    \A d \in Disks :
      Get(last.getter, instance, overrideScope, env, d,
          [ cache |-> cache, reads |-> reads ], last.key, last.options).outcome
        = last.outcome

\* a call answered with the entry of a file that has been deleted since it
\* was cached
C10_Witness ==
  /\ Called /\ NoEnvDefines /\ Def(last.scope) \in DOMAIN last.cacheBefore
  /\ instance.configDir \o "/config." \o last.scope \notin DOMAIN fs
  /\ last.raw = Returned(Def("3000"))

\* C11: every load, with or without argument, leaves the cache empty, also
\* when the new override equals the previous one and when there was no
\* override to clear
C11_LoadClearsCache ==
  op.name = "load" => cache = EmptyCache /\ reads = NoReads

\* load("qa") on an override that was "qa" already, with entries in the cache
C11_Witness ==
  /\ op.name = "load" /\ op.scope = Def("qa") /\ op.overrideBefore = Def("qa")
  /\ op.cacheBefore # EmptyCache
  /\ cache = EmptyCache

\* the ambient-variable-or-default resolution of the scope
AmbientOrDefault ==
  IF EnvGet(env, instance.scopeEnvVarName) \notin { Undefined, Def("") }
  THEN Val(EnvGet(env, instance.scopeEnvVarName))
  ELSE instance.defaultScope

\* C12: the override is unset at construction, is s after load(s) and unset
\* after load(); a getter call without explicit scope uses the argument of
\* the most recent load if it had one, else the ambient variable or default
C12_OverrideLifecycle ==
  /\ op.name \in { "initialize", "getInstance" } /\ op.existing = Null =>
       overrideScope = Undefined
  /\ op.name = "load" => overrideScope = op.scope
  /\ Called /\ ~HasScope =>
       last.scope = IF IsDef(loaded) THEN Val(loaded) ELSE AmbientOrDefault

\* load("qa"), then load(), then a getter call with SCOPE=qa in the
\* environment of an engine whose default scope is "dev": the call reverts to
\* the ambient variable
C12_Witness ==
  /\ Called /\ ~HasScope
  /\ op.after.name = "load" /\ op.after.scope = Undefined
  /\ IsDef(op.after.overrideBefore)
  /\ loaded = Undefined
  /\ EnvGet(env, instance.scopeEnvVarName) = Def("qa")
  /\ last.scope = "qa"

\* the file of a scope as it is on disk now
DiskFile(sc) == parseEnvFile(fs, instance.configDir \o "/config." \o sc)

\* C13: clearCache removes the entries of every scope, and the first getter
\* call after it that reaches the file tier of a scope invokes the Source
\* Reader again and answers from the file as it is on disk at that call
C13_ClearStartsEpoch ==
  /\ op.name = "clearCache" => cache = EmptyCache /\ reads = NoReads
  /\ Called /\ op.after.name = "clearCache" /\ NoEnvDefines
       /\ ValidName(last.scope) /\ ValidName(instance.defaultScope) =>
       /\ last.cacheBefore = EmptyCache
       /\ reads[Def(last.scope)] = 1
       /\ cache[Def(last.scope)] = DiskFile(last.scope)
       /\ last.raw =
            IF last.key \in DOMAIN DiskFile(last.scope)
            THEN Returned(Def(DiskFile(last.scope)[last.key]))
            ELSE IF instance.defaultScope # last.scope
                    /\ last.key \in DOMAIN DiskFile(instance.defaultScope)
            THEN Returned(Def(DiskFile(instance.defaultScope)[last.key]))
            ELSE Returned(Undefined)

\* the file of the scope was cached, then rewritten, then the cache was
\* cleared: the call returns the entry of the rewritten file
C13_Witness ==
  /\ Called /\ op.after.name = "clearCache" /\ NoEnvDefines
  /\ Def(last.scope) \in DOMAIN op.after.cacheBefore
  /\ Lookup(op.after.cacheBefore[Def(last.scope)], last.key)
       # Lookup(DiskFile(last.scope), last.key)
  /\ IsDef(Lookup(DiskFile(last.scope), last.key))
  /\ last.raw = Returned(Lookup(DiskFile(last.scope), last.key))

\* C14: once the engine instance exists, no operation replaces it or changes
\* its configuration: every later initialize and getInstance leaves the same
\* instance, and the options of a later initialize are ignored
C14_Singleton == [][instance # Null => instance' = instance]_vars

\* the instance was created by getInstance() with the defaults; a later
\* initialize with strict: false leaves it strict
C14_Witness ==
  /\ op.name = "initialize" /\ op.existing = Constructor(EmptyRecord)
  /\ op.options.strict = FALSE /\ Constructor(op.options) # op.existing
  /\ instance = op.existing /\ instance.strict

\* C15: a getter call that reaches the file tier of a scope with an illegal
\* name fails with InvalidScopeName, whatever the default supplied and the
\* strict flag, and caches nothing; every key of the cache is a legal name
C15_InvalidScopeName ==
  /\ \A sc \in DOMAIN cache : ValidName(Val(sc))
  /\ Called /\ NoEnvDefines /\ ~ValidName(last.scope) =>
       /\ last.outcome = Thrown("Error", "Invalid scope name")
       /\ cache = last.cacheBefore

\* scope "a/b" on a non-strict engine, with a default supplied
C15_Witness ==
  /\ Called /\ NoEnvDefines /\ last.scope = "a/b"
  /\ HasDefault /\ ~instance.strict
  /\ last.outcome = Thrown("Error", "Invalid scope name")
  /\ Def("a/b") \notin DOMAIN cache

\* the two spellings of a character
BothCases(c) ==
  IF IndexOf(LowerLetters, c) # 0
  THEN { c, CharAt(UpperLetters, IndexOf(LowerLetters, c)) }
  ELSE { c }

\* every spelling of a lower-case word in upper- and lower-case letters
RECURSIVE Spellings(_)
Spellings(w) ==
  IF w = "" THEN { "" }
  ELSE { c \o rest : c \in BothCases(Head(w)), rest \in Spellings(Tail(w)) }

TruthySpellings == UNION { Spellings(w) : w \in { "true", "1", "yes", "on" } }
FalsySpellings == UNION { Spellings(w) : w \in { "false", "0", "no", "off" } }

\* C16: getBoolean on a present raw value returns true exactly for the
\* spellings of true, 1, yes, on, false exactly for those of false, 0, no,
\* off, and treats every other text, the empty one included, as a conversion
\* failure (the default if one is supplied, else the conversion error)
C16_BooleanWords ==
  Called /\ last.getter = "getBoolean" /\ RawPresent =>
    last.outcome =
      IF Val(last.raw.value) \in TruthySpellings THEN Returned([ bool |-> TRUE ])
      ELSE IF Val(last.raw.value) \in FalsySpellings THEN Returned([ bool |-> FALSE ])
      ELSE IF HasDefault THEN Returned(last.options.default)
      ELSE Thrown("TypeError", "expected a boolean")

\* the empty text is present and is not a boolean
C16_Witness ==
  /\ Called /\ last.getter = "getBoolean" /\ last.raw = Returned(Def(""))
  /\ ~HasDefault
  /\ last.outcome = Thrown("TypeError", "expected a boolean")

\* C17: a missing key in strict mode fails with an error kind of its own,
\* KeyNotFound: not the generic error, not the kind raised for an illegal
\* scope name, not the kind raised for a conversion failure
C17_DistinctErrorKinds ==
  Called /\ RawMissing /\ ~HasDefault /\ instance.strict =>
    /\ last.outcome.kind = "throw"
    /\ last.outcome.class # "Error"
    /\ last.outcome.class # buildEnvFilename(Def("a/b")).class
    /\ last.outcome.class # Convert("getNumber", "x", EmptyRecord).class

\* the raw value the file tiers give the call (scope names valid)
FileTiers ==
  IF Defines(last.scope) THEN Returned(Def(FileOf(last.scope)[last.key]))
  ELSE IF instance.defaultScope # last.scope /\ Defines(instance.defaultScope)
  THEN Returned(Def(FileOf(instance.defaultScope)[last.key]))
  ELSE Returned(Undefined)

\* C18: every getter call reads process.env as it is at that call, whatever
\* the cache holds: the ambient-scope variable decides the scope of a call
\* without explicit scope and override, a defined prefixed or unprefixed
\* variable of the key is the raw value, and a variable that is not defined
\* (any more) leaves the answer to the files
C18_EnvNeverCached ==
  Called =>
    /\ ~HasScope /\ overrideScope = Undefined => last.scope = AmbientOrDefault
    /\ PrefixedDefined => last.raw = Returned(Def(env[PrefixedName]))
    /\ ~PrefixedDefined /\ PlainDefined => last.raw = Returned(Def(env[last.key]))
    /\ NoEnvDefines /\ ValidName(last.scope) /\ ValidName(instance.defaultScope) =>
         last.raw = FileTiers

\* the file of the scope is in the cache with an entry for the key, from an
\* earlier call it answered; the variable set since then is the raw value
C18_Witness ==
  /\ Called /\ PlainDefined /\ ~PrefixedDefined
  /\ Def(last.scope) \in DOMAIN last.cacheBefore
  /\ last.key \in DOMAIN last.cacheBefore[Def(last.scope)]
  /\ env[last.key] # last.cacheBefore[Def(last.scope)][last.key]
  /\ last.raw = Returned(Def(env[last.key]))

\* the step is a call of an operation of the engine other than a getter
EngineStep ==
  op'.name \in { "initialize", "getInstance", "load", "clearCache" }

\* the step invokes the Source Reader for no scope
NoRead ==
  \A sc \in DOMAIN reads' : sc \in DOMAIN reads /\ reads'[sc] = reads[sc]

\* the scopes that get a cache entry in the step
NewEntries == DOMAIN cache' \ DOMAIN cache

\* C19: the Source Reader runs lazily.  A getter call answered by an
\* environment variable reads no file and adds no cache entry; a call answered
\* by the file of its scope does not load the default scope's file;
\* construction, load and clearCache read no file; and a cache entry appears
\* only by a getter call that reached the file tier of its scope
C19_LazyReader ==
  /\ [](Called =>
          /\ PrefixedDefined \/ PlainDefined => cache = last.cacheBefore
          /\ NoEnvDefines /\ ValidName(last.scope) /\ Defines(last.scope) =>
               DOMAIN cache = DOMAIN last.cacheBefore \cup { Def(last.scope) })
  /\ [][ /\ EngineStep => NoRead
         /\ op'.name = "get" /\ NewEntries = {} => reads' = reads
         /\ \A sc \in NewEntries :
              /\ op'.name = "get"
              /\ last'.key \notin DOMAIN env'
              /\ sc \in { Def(last'.scope), Def(instance'.defaultScope) }
              /\ reads'[sc] = 1
       ]_vars

\* the file of scope "qa" defines the key: after the call the cache holds
\* the file of "qa" and not the file of the default scope "dev"
C19_Witness ==
  /\ Called /\ NoEnvDefines /\ last.scope = "qa" /\ instance.defaultScope = "dev"
  /\ Defines("qa")
  /\ last.cacheBefore = EmptyCache
  /\ DOMAIN cache = { Def("qa") }

\* C20: only load changes the Scope Override: no getter call, failed or not,
\* with or without a scope of its own, and no clearCache changes it, so the
\* scope of one call is not in force for the next
C20_OnlyLoadSetsOverride ==
  [][op'.name # "load" => overrideScope' = overrideScope]_vars

\* a call with the illegal scope "a/b" has failed; the override is still "qa"
C20_Witness ==
  /\ Called /\ HasScope /\ last.options.scope = "a/b"
  /\ last.outcome.kind = "throw"
  /\ overrideScope = Def("qa") /\ loaded = Def("qa")

\* C21: load stores its argument verbatim, the empty string and names with
\* illegal characters included; a getter call without explicit scope then
\* uses that name as it is, and fails with InvalidScopeName when the name is
\* illegal and no environment variable defines the key
C21_LoadStoresVerbatim ==
  /\ op.name = "load" => overrideScope = op.scope /\ loaded = op.scope
  /\ Called /\ ~HasScope /\ IsDef(loaded) => last.scope = Val(loaded)
  /\ Called /\ ~HasScope /\ IsDef(loaded) /\ ~ValidName(Val(loaded)) /\ NoEnvDefines =>
       last.outcome = Thrown("Error", "Invalid scope name")

\* after load(""), with SCOPE=qa in the environment: the empty override is
\* in force, not the ambient variable, and the call fails although it
\* supplies a default
C21_Witness ==
  /\ Called /\ ~HasScope /\ loaded = Def("") /\ overrideScope = Def("")
  /\ EnvGet(env, instance.scopeEnvVarName) = Def("qa")
  /\ NoEnvDefines /\ HasDefault
  /\ last.scope = ""
  /\ last.outcome = Thrown("Error", "Invalid scope name")

\* C22: an empty raw value is a value.  An environment variable of the key
\* set to "" is the raw value and keeps the files out; an entry with an empty
\* value in the file of the scope is the raw value whatever the default
\* scope's file holds; and getString then returns "", not the default and
\* not KeyNotFound
C22_EmptyIsPresent ==
  Called =>
    /\ ~PrefixedDefined /\ PlainDefined /\ env[last.key] = "" =>
         last.raw = Returned(Def("")) /\ cache = last.cacheBefore
    /\ NoEnvDefines /\ ValidName(last.scope) /\ Defines(last.scope)
         /\ FileOf(last.scope)[last.key] = "" =>
         last.raw = Returned(Def(""))
    /\ last.getter = "getString" /\ last.raw = Returned(Def("")) =>
         last.outcome = Returned([ str |-> "" ])

\* the file of scope "qa" has "PORT=", the file of the default scope "dev"
\* has PORT=3000: a strict engine returns "" to a call that supplies a default
C22_Witness ==
  /\ Called /\ last.getter = "getString" /\ NoEnvDefines
  /\ last.scope = "qa" /\ instance.defaultScope = "dev"
  /\ Defines("qa") /\ FileOf("qa")[last.key] = ""
  /\ Defines("dev") /\ FileOf("dev")[last.key] = "3000"
  /\ instance.strict /\ HasDefault
  /\ last.outcome = Returned([ str |-> "" ])

====
